---- MODULE Spec2Model ----
(***************************************************************************)
(* osmium::StringMatcher (src/osmium/util/string_matcher.hpp).             *)
(*                                                                         *)
(* Texts are sequences of bytes (integers).  A std::string is the sequence *)
(* of its size() bytes and may hold NUL bytes; a const char* is a buffer   *)
(* that ends with a NUL terminator and is read up to its first NUL.        *)
(***************************************************************************)
EXTENDS Integers, Sequences, FiniteSets

\* Longest text handed to a constructor, to add_string or to a match call.
MaxLen == 2
\* Longest text held as an element of a list payload.
MaxElem == 1
\* Longest vector of strings a list payload holds.
MaxList == 2
\* Longest text used in the multi-threaded specification.
MTLen == 1
\* Number of threads calling operator() on one shared StringMatcher.
NumThreads == 2

\* The terminator of a C string, '\0'.
NUL == 0

\* Bytes of the texts: '\0', 'a', 'b'.
Alphabet == {NUL, 97, 98}
\* Bytes of the texts of the multi-threaded specification: 'a'.
MTAlphabet == {97}
\* Bytes of the pattern texts given to std::regex: 'a' and '('.
PatternAlphabet == {97, 40}

SeqsUpTo(S, n) == UNION {[1..k -> S] : k \in 0..n}

Texts == SeqsUpTo(Alphabet, MaxLen)
ElemTexts == {t \in Texts : Len(t) <= MaxElem}
Vectors == SeqsUpTo(ElemTexts, MaxList)
Patterns == SeqsUpTo(PatternAlphabet, MaxLen)
MTTexts == SeqsUpTo(MTAlphabet, MTLen)
MTVectors == SeqsUpTo(MTTexts, MaxList)
Threads == 1..NumThreads

Range(f) == {f[i] : i \in DOMAIN f}

(***************************************************************************)
(* The C and C++ library functions the matchers call.                      *)
(***************************************************************************)

\* std::string::c_str(): the bytes of the string followed by a terminator.
c_str(s) == s \o <<NUL>>

\* std::strlen: the number of bytes before the first NUL of the buffer.
RECURSIVE strlen_from(_, _)
strlen_from(buf, i) == IF buf[i] = NUL THEN i - 1 ELSE strlen_from(buf, i + 1)

strlen(buf) == strlen_from(buf, 1)

\* std::string(const char*): copies the strlen bytes before the terminator.
string_from(buf) == SubSeq(buf, 1, strlen(buf))

\* std::strcmp: bytes are compared up to and including the first NUL.
RECURSIVE strcmp_from(_, _, _)
strcmp_from(s1, s2, i) ==
    IF s1[i] # s2[i] THEN (IF s1[i] < s2[i] THEN -1 ELSE 1)
    ELSE IF s1[i] = NUL THEN 0
    ELSE strcmp_from(s1, s2, i + 1)

strcmp(s1, s2) == strcmp_from(s1, s2, 1)

\* True iff the C string needle stands in hay at position i.
RECURSIVE starts_at(_, _, _, _)
starts_at(hay, needle, i, j) ==
    IF needle[j] = NUL THEN TRUE
    ELSE IF hay[i + j - 1] = NUL \/ hay[i + j - 1] # needle[j] THEN FALSE
    ELSE starts_at(hay, needle, i, j + 1)

\* std::strstr: the position (from 1) of the first occurrence of the C string
\* needle in the C string hay, 0 for a null pointer.
RECURSIVE strstr_from(_, _, _)
strstr_from(hay, needle, i) ==
    IF starts_at(hay, needle, i, 1) THEN i
    ELSE IF hay[i] = NUL THEN 0
    ELSE strstr_from(hay, needle, i + 1)

strstr(hay, needle) == strstr_from(hay, needle, 1)

Min(a, b) == IF a < b THEN a ELSE b

\* std::string::substr(pos, n) for pos <= size().
substr(s, pos, n) == SubSeq(s, pos + 1, pos + Min(n, Len(s) - pos))

\* std::char_traits<char>::compare followed by the comparison of the lengths,
\* as std::string::compare does: negative, zero or positive.
RECURSIVE traits_compare(_, _, _, _)
traits_compare(a, b, i, n) ==
    IF i > n THEN 0
    ELSE IF a[i] < b[i] THEN -1
    ELSE IF a[i] > b[i] THEN 1
    ELSE traits_compare(a, b, i + 1, n)

string_compare(a, b) ==
    LET r == traits_compare(a, b, 1, Min(Len(a), Len(b)))
    IN  IF r # 0 THEN r
        ELSE IF Len(a) < Len(b) THEN -1
        ELSE IF Len(a) > Len(b) THEN 1
        ELSE 0

(***************************************************************************)
(* The regex capability (std::regex), on the patterns of PatternAlphabet:  *)
(* a pattern with an unmatched '(' does not compile, a pattern of literal  *)
(* bytes is searched for in the C string.                                  *)
(***************************************************************************)

regex_valid(p) == \A i \in DOMAIN p : p[i] # 40

\* std::regex_search(const char*, const std::regex&).
regex_search(test_string, re) == strstr(test_string, c_str(re.pattern)) # 0

(***************************************************************************)
(* The matcher payloads.                                                   *)
(***************************************************************************)

always_false == [kind |-> "always_false"]
always_true == [kind |-> "always_true"]
\* equal(std::string) and equal(const char*).
equal(str) == [kind |-> "equal", m_str |-> str]
equal_cstr(buf) == [kind |-> "equal", m_str |-> string_from(buf)]
prefix(str) == [kind |-> "prefix", m_str |-> str]
prefix_cstr(buf) == [kind |-> "prefix", m_str |-> string_from(buf)]
substring(str) == [kind |-> "substring", m_str |-> str]
substring_cstr(buf) == [kind |-> "substring", m_str |-> string_from(buf)]
regex(re) == [kind |-> "regex", m_regex |-> re]
list(strings) == [kind |-> "list", m_strings |-> strings]

always_false_match(test_string) == FALSE

always_true_match(test_string) == TRUE

equal_match(m, test_string) == strcmp(c_str(m.m_str), test_string) = 0

\* m_str.compare(0, npos, test_string, 0, m_str.size()): test_string is
\* converted to a std::string, of which the first m_str.size() bytes are taken.
prefix_match(m, test_string) ==
    string_compare(substr(m.m_str, 0, Len(m.m_str)),
                   substr(string_from(test_string), 0, Len(m.m_str))) = 0

substring_match(m, test_string) == strstr(test_string, c_str(m.m_str)) # 0

regex_match(m, test_string) == regex_search(test_string, m.m_regex)

\* The lambda of list::match: s == test_string.
list_element_match(s, test_string) == string_compare(s, string_from(test_string)) = 0

\* std::any_of over m_strings from position i.
RECURSIVE any_of_from(_, _, _)
any_of_from(strings, test_string, i) ==
    IF i > Len(strings) THEN FALSE
    ELSE IF list_element_match(strings[i], test_string) THEN TRUE
    ELSE any_of_from(strings, test_string, i + 1)

list_match(m, test_string) == any_of_from(m.m_strings, test_string, 1)

\* match_visitor applied to the active payload.
match_visitor(m, test_string) ==
    CASE m.kind = "always_false" -> always_false_match(test_string)
      [] m.kind = "always_true" -> always_true_match(test_string)
      [] m.kind = "equal" -> equal_match(m, test_string)
      [] m.kind = "prefix" -> prefix_match(m, test_string)
      [] m.kind = "substring" -> substring_match(m, test_string)
      [] m.kind = "regex" -> regex_match(m, test_string)
      [] m.kind = "list" -> list_match(m, test_string)

\* operator()(const char*).
call_cstr(m, str) == match_visitor(m, str)

\* operator()(const std::string&).
call_string(m, str) == call_cstr(m, c_str(str))

(***************************************************************************)
(* Printing: the bytes each payload inserts into the output stream.        *)
(***************************************************************************)

\* operator<<(ostream&, const char*): the bytes before the terminator.
put_cstr(out, buf) == out \o string_from(buf)
\* operator<<(ostream&, const std::string&): all size() bytes.
put_string(out, s) == out \o s
\* operator<<(ostream&, char).
put_char(out, c) == Append(out, c)

\* The string literals of the print functions, as NUL-terminated buffers.
lit_always_false == <<97, 108, 119, 97, 121, 115, 95, 102, 97, 108, 115, 101, NUL>>
lit_always_true == <<97, 108, 119, 97, 121, 115, 95, 116, 114, 117, 101, NUL>>
lit_equal == <<101, 113, 117, 97, 108, 91, NUL>>
lit_prefix == <<112, 114, 101, 102, 105, 120, 91, NUL>>
lit_substring == <<115, 117, 98, 115, 116, 114, 105, 110, 103, 91, NUL>>
lit_regex == <<114, 101, 103, 101, 120, NUL>>
lit_list == <<108, 105, 115, 116, 91, NUL>>

always_false_print(out) == put_cstr(out, lit_always_false)
always_true_print(out) == put_cstr(out, lit_always_true)
equal_print(m, out) == put_char(put_string(put_cstr(out, lit_equal), m.m_str), 93)
prefix_print(m, out) == put_char(put_string(put_cstr(out, lit_prefix), m.m_str), 93)
substring_print(m, out) == put_char(put_string(put_cstr(out, lit_substring), m.m_str), 93)
regex_print(m, out) == put_cstr(out, lit_regex)

\* The loop of list::print without the '[' before each element.
RECURSIVE list_print_from_unopened(_, _, _)
list_print_from_unopened(strings, out, i) ==
    IF i > Len(strings) THEN out
    ELSE list_print_from_unopened(strings,
                                  put_char(put_string(out, strings[i]), 93),
                                  i + 1)

\* The loop of list::print over m_strings from position i.
RECURSIVE list_print_from(_, _, _)
list_print_from(strings, out, i) ==
    IF i > Len(strings) THEN out
    ELSE list_print_from(strings,
                         put_char(put_string(put_char(out, 91), strings[i]), 93),
                         i + 1)

list_print(m, out) ==
    put_char(list_print_from(m.m_strings, put_cstr(out, lit_list), 1), 93)

\* print_visitor applied to the active payload.
print_visitor(m, out) ==
    CASE m.kind = "always_false" -> always_false_print(out)
      [] m.kind = "always_true" -> always_true_print(out)
      [] m.kind = "equal" -> equal_print(m, out)
      [] m.kind = "prefix" -> prefix_print(m, out)
      [] m.kind = "substring" -> substring_print(m, out)
      [] m.kind = "regex" -> regex_print(m, out)
      [] m.kind = "list" -> list_print(m, out)

\* StringMatcher::print into an empty stream.
print(m) == print_visitor(m, <<>>)

(***************************************************************************)
(* State.                                                                  *)
(***************************************************************************)
VARIABLES
    m_matcher,  \* the variant held by the StringMatcher
    ctor,       \* the constructor that built it ("default", "bool" or "other")
                \* and its bool argument
    aregex,     \* the std::regex object the caller passes to the constructor
    last,       \* the last operation, its argument and what it returned
    pc,         \* per thread: "idle", "visit" or "done"
    m_str,      \* per thread: match_visitor::m_str
    it,         \* per thread: the iterator of std::any_of
    res,        \* per thread: the value operator() returns
    raced,      \* per thread: add_string was running while the call was in flight
    wr          \* the element a running add_string is appending, if any

vars == <<m_matcher, ctor, aregex, last, pc, m_str, it, res, raced, wr>>
mt_vars == <<pc, m_str, it, res, raced, wr>>

Ctor(name, flag) == [name |-> name, flag |-> flag]
Last(op, arg, ret, threw, out) ==
    [op |-> op, arg |-> arg, ret |-> ret, threw |-> threw, out |-> out]

\* The payload objects a caller can build from the bounded texts.
Payloads ==
    {always_false, always_true}
    \cup {equal(s) : s \in Texts} \cup {equal_cstr(c_str(s)) : s \in Texts}
    \cup {prefix(s) : s \in Texts} \cup {prefix_cstr(c_str(s)) : s \in Texts}
    \cup {substring(s) : s \in Texts} \cup {substring_cstr(c_str(s)) : s \in Texts}
    \cup {list(v) : v \in Vectors}

\* The storage of a StringMatcher before one of its constructors has run.
unconstructed == [kind |-> "none"]

Init ==
    /\ m_matcher = unconstructed
    /\ ctor = Ctor("none", FALSE)
    /\ aregex = <<>>
    /\ last = Last("none", <<>>, FALSE, "", <<>>)
    /\ pc = [t \in Threads |-> "idle"]
    /\ m_str = [t \in Threads |-> <<NUL>>]
    /\ it = [t \in Threads |-> 1]
    /\ res = [t \in Threads |-> FALSE]
    /\ raced = [t \in Threads |-> FALSE]
    /\ wr = <<>>

Constructed(m, c) ==
    /\ m_matcher' = m
    /\ ctor' = c
    /\ last' = Last("construct", <<>>, FALSE, "", <<>>)
    /\ aregex' = <<>>
    /\ UNCHANGED mt_vars

\* StringMatcher().
ConstructDefault ==
    /\ ctor.name = "none"
    /\ Constructed(always_false, Ctor("default", FALSE))

\* StringMatcher(bool) without the assignment of always_true.
from_bool_never_assigned(result) == always_false

\* The variant StringMatcher(bool) leaves in m_matcher.
from_bool(result) == IF result THEN always_true ELSE always_false

\* StringMatcher(bool).
ConstructBool ==
    /\ ctor.name = "none"
    /\ \E b \in BOOLEAN : Constructed(from_bool(b), Ctor("bool", b))

\* StringMatcher(const char*).
ConstructCStr ==
    /\ ctor.name = "none"
    /\ \E s \in Texts : Constructed(equal_cstr(c_str(s)), Ctor("other", FALSE))

\* StringMatcher(const std::string&).
ConstructString ==
    /\ ctor.name = "none"
    /\ \E s \in Texts : Constructed(equal(s), Ctor("other", FALSE))

\* StringMatcher(const std::vector<std::string>&).
ConstructVector ==
    /\ ctor.name = "none"
    /\ \E v \in Vectors : Constructed(list(v), Ctor("other", FALSE))

\* StringMatcher(TMatcher&&) for a payload object.
ConstructPayload ==
    /\ ctor.name = "none"
    /\ \E p \in Payloads :
        Constructed(p, Ctor("other", FALSE))

\* std::regex r{pattern}, evaluated by the caller before the StringMatcher is
\* constructed from r: it throws std::regex_error for a pattern that does not
\* compile, and no regex object comes into existence.
CompileRegex ==
    /\ ctor.name = "none"
    /\ \E p \in Patterns :
        /\ aregex' = IF regex_valid(p) THEN <<[pattern |-> p]>> ELSE <<>>
        /\ last' = Last("compile", p, FALSE,
                        IF regex_valid(p) THEN "" ELSE "regex_error", <<>>)
    /\ UNCHANGED <<m_matcher, ctor, mt_vars>>

\* A constructor that takes the pattern text of the last compilation, whether
\* or not it compiled.
ConstructRegexFromText ==
    /\ ctor.name = "none"
    /\ last.op = "compile"
    /\ Constructed(regex([pattern |-> last.arg]), Ctor("other", FALSE))

\* StringMatcher(const std::regex&): the argument is a compiled regex object.
ConstructRegex ==
    /\ ctor.name = "none"
    /\ aregex # <<>>
    /\ Constructed(regex(aregex[1]), Ctor("other", FALSE))

\* list::add_string(const std::string&).
add_string(m, str) == [m EXCEPT !.m_strings = Append(@, str)]
\* list::add_string(const char*).
add_string_cstr(m, buf) == [m EXCEPT !.m_strings = Append(@, string_from(buf))]

AddString ==
    /\ m_matcher.kind = "list"
    /\ Len(m_matcher.m_strings) < MaxList
    /\ \E z \in ElemTexts :
        /\ m_matcher' = add_string(m_matcher, z)
        /\ last' = Last("add", z, FALSE, "", <<>>)
    /\ UNCHANGED <<ctor, aregex, mt_vars>>

AddStringCStr ==
    /\ m_matcher.kind = "list"
    /\ Len(m_matcher.m_strings) < MaxList
    /\ \E z \in ElemTexts :
        /\ m_matcher' = add_string_cstr(m_matcher, c_str(z))
        /\ last' = Last("add_cstr", string_from(c_str(z)), FALSE, "", <<>>)
    /\ UNCHANGED <<ctor, aregex, mt_vars>>

\* operator()(const std::string&) on the input text s.
Match ==
    /\ ctor.name # "none"
    /\ \E s \in Texts :
        last' = Last("match", s, call_string(m_matcher, s), "", <<>>)
    /\ UNCHANGED <<m_matcher, ctor, aregex, mt_vars>>

\* operator<<(ostream&, const StringMatcher&) into an empty stream.
Describe ==
    /\ ctor.name # "none"
    /\ last' = Last("print", <<>>, FALSE, "", print(m_matcher))
    /\ UNCHANGED <<m_matcher, ctor, aregex, mt_vars>>

Next ==
    \/ ConstructDefault
    \/ ConstructBool
    \/ ConstructCStr
    \/ ConstructString
    \/ ConstructVector
    \/ ConstructPayload
    \/ CompileRegex
    \/ ConstructRegex
    \/ AddString
    \/ AddStringCStr
    \/ Match
    \/ Describe

Spec == Init /\ [][Next]_vars

(***************************************************************************)
(* Several threads calling operator() on one shared matcher, and a writer  *)
(* calling add_string on its list.  m_matcher is private to StringMatcher, *)
(* so the writer's steps stand for a shared list object.  A call reads     *)
(* m_matcher in steps (std::any_of visits one element per step).  Nothing  *)
(* in the code orders add_string against the calls: push_back runs from    *)
(* its entry to its return (it may allocate, move the elements, free the   *)
(* old storage and update the pointers of m_strings), and every call in    *)
(* flight at any moment of that interval is in a data race with it, after  *)
(* which the call may return either value or end the program.              *)
(***************************************************************************)

\* The matchers over the texts of the multi-threaded specification.
MTPayloads ==
    {always_false, always_true}
    \cup {equal(s) : s \in MTTexts}
    \cup {prefix(s) : s \in MTTexts}
    \cup {substring(s) : s \in MTTexts}
    \cup {regex([pattern |-> p]) : p \in {q \in Patterns : Len(q) <= MTLen /\ regex_valid(q)}}
    \cup {list(v) : v \in MTVectors}

InitMT ==
    /\ m_matcher \in MTPayloads
    /\ ctor = Ctor("other", FALSE)
    /\ aregex = <<>>
    /\ last = Last("construct", <<>>, FALSE, "", <<>>)
    /\ pc = [t \in Threads |-> "idle"]
    /\ m_str = [t \in Threads |-> <<NUL>>]
    /\ it = [t \in Threads |-> 1]
    /\ res = [t \in Threads |-> FALSE]
    /\ raced = [t \in Threads |-> FALSE]
    /\ wr = <<>>

\* Thread t enters operator()(const std::string&): match_visitor{str.c_str()}.
MTCall(t) ==
    /\ pc[t] = "idle"
    /\ \E s \in MTTexts : m_str' = [m_str EXCEPT ![t] = c_str(s)]
    /\ pc' = [pc EXCEPT ![t] = "visit"]
    /\ it' = [it EXCEPT ![t] = 1]
    /\ raced' = [raced EXCEPT ![t] = (wr # <<>>)]
    /\ UNCHANGED <<m_matcher, ctor, aregex, last, res, wr>>

\* The outcomes of a call whose list was written to while it was in flight:
\* it returns either value, or the program ends in thread t.
RacedVisit(t) ==
    \/ /\ \E b \in BOOLEAN : res' = [res EXCEPT ![t] = b]
       /\ pc' = [pc EXCEPT ![t] = "done"]
    \/ /\ pc' = [pc EXCEPT ![t] = "crashed"]
       /\ UNCHANGED res

\* A visit that reorders the list it searches: the element found is moved to
\* the front of m_strings.
MTVisitMoveToFront(t) ==
    /\ pc[t] = "visit"
    /\ IF raced[t]
       THEN RacedVisit(t) /\ UNCHANGED <<it, m_matcher>>
       ELSE IF m_matcher.kind # "list"
       THEN /\ res' = [res EXCEPT ![t] = match_visitor(m_matcher, m_str[t])]
            /\ pc' = [pc EXCEPT ![t] = "done"]
            /\ UNCHANGED <<it, m_matcher>>
       ELSE IF it[t] > Len(m_matcher.m_strings)
       THEN /\ res' = [res EXCEPT ![t] = FALSE]
            /\ pc' = [pc EXCEPT ![t] = "done"]
            /\ UNCHANGED <<it, m_matcher>>
       ELSE IF list_element_match(m_matcher.m_strings[it[t]], m_str[t])
       THEN /\ res' = [res EXCEPT ![t] = TRUE]
            /\ pc' = [pc EXCEPT ![t] = "done"]
            /\ m_matcher' = list(<<m_matcher.m_strings[it[t]]>>
                                 \o SubSeq(m_matcher.m_strings, 1, it[t] - 1)
                                 \o SubSeq(m_matcher.m_strings, it[t] + 1,
                                           Len(m_matcher.m_strings)))
            /\ UNCHANGED it
       ELSE /\ it' = [it EXCEPT ![t] = @ + 1]
            /\ UNCHANGED <<res, pc, m_matcher>>
    /\ UNCHANGED <<ctor, aregex, last, m_str, raced, wr>>

\* Thread t applies match_visitor to the active payload; for a list, one
\* element of std::any_of per step.
MTVisit(t) ==
    /\ pc[t] = "visit"
    /\ IF raced[t]
       THEN RacedVisit(t) /\ UNCHANGED it
       ELSE IF m_matcher.kind # "list"
       THEN /\ res' = [res EXCEPT ![t] = match_visitor(m_matcher, m_str[t])]
            /\ pc' = [pc EXCEPT ![t] = "done"]
            /\ UNCHANGED it
       ELSE IF it[t] > Len(m_matcher.m_strings)
       THEN /\ res' = [res EXCEPT ![t] = FALSE]
            /\ pc' = [pc EXCEPT ![t] = "done"]
            /\ UNCHANGED it
       ELSE IF list_element_match(m_matcher.m_strings[it[t]], m_str[t])
       THEN /\ res' = [res EXCEPT ![t] = TRUE]
            /\ pc' = [pc EXCEPT ![t] = "done"]
            /\ UNCHANGED it
       ELSE /\ it' = [it EXCEPT ![t] = @ + 1]
            /\ UNCHANGED <<res, pc>>
    /\ UNCHANGED <<m_matcher, ctor, aregex, last, m_str, raced, wr>>

\* operator() returns res[t] to its caller.
MTReturn(t) ==
    /\ pc[t] = "done"
    /\ pc' = [pc EXCEPT ![t] = "idle"]
    /\ m_str' = [m_str EXCEPT ![t] = <<NUL>>]
    /\ it' = [it EXCEPT ![t] = 1]
    /\ res' = [res EXCEPT ![t] = FALSE]
    /\ raced' = [raced EXCEPT ![t] = FALSE]
    /\ UNCHANGED <<m_matcher, ctor, aregex, last, wr>>

\* The calls that add_string runs into: those entered and not yet returned.
InFlight(t) == pc[t] \in {"visit", "done"}

\* The writer enters list::add_string(const std::string&): it takes no lock
\* and starts push_back whether or not a call is in flight.
MTAddString ==
    /\ wr = <<>>
    /\ m_matcher.kind = "list"
    /\ Len(m_matcher.m_strings) < MaxList
    /\ \E z \in MTTexts : wr' = <<z>>
    /\ raced' = [t \in Threads |-> raced[t] \/ InFlight(t)]
    /\ UNCHANGED <<m_matcher, ctor, aregex, last, pc, m_str, it, res>>

\* The writer enters list::add_string(const char*): emplace_back builds the
\* element from the C string.
MTAddStringCStr ==
    /\ wr = <<>>
    /\ m_matcher.kind = "list"
    /\ Len(m_matcher.m_strings) < MaxList
    /\ \E z \in MTTexts : wr' = <<string_from(c_str(z))>>
    /\ raced' = [t \in Threads |-> raced[t] \/ InFlight(t)]
    /\ UNCHANGED <<m_matcher, ctor, aregex, last, pc, m_str, it, res>>

\* push_back or emplace_back has updated m_strings and add_string returns.
MTAddStringReturn ==
    /\ wr # <<>>
    /\ m_matcher' = add_string(m_matcher, wr[1])
    /\ wr' = <<>>
    /\ UNCHANGED <<ctor, aregex, last, pc, m_str, it, res, raced>>

NextMT ==
    \/ \E t \in Threads : MTCall(t)
    \/ \E t \in Threads : MTVisit(t)
    \/ \E t \in Threads : MTReturn(t)
    \/ MTAddString
    \/ MTAddStringCStr
    \/ MTAddStringReturn

SpecMT == InitMT /\ [][NextMT]_vars

(***************************************************************************)
(* Properties.                                                             *)
(***************************************************************************)

Matched(kind) == last.op = "match" /\ m_matcher.kind = kind

\* t begins with p, byte for byte.
BeginsWith(t, p) == Len(p) <= Len(t) /\ SubSeq(t, 1, Len(p)) = p

\* sub occurs in t, byte for byte.
OccursIn(sub, t) ==
    \E i \in 0..(Len(t) - Len(sub)) : SubSeq(t, i + 1, i + Len(sub)) = sub

\* C1: a matcher holding equal(s) matches the input t if and only if t is
\* byte-for-byte identical to s, NUL bytes included.
C1_EqualIffIdentical ==
    Matched("equal") => (last.ret <=> last.arg = m_matcher.m_str)

\* C2: a matcher holding prefix(p) matches the input t if and only if t
\* begins with p.
C2_PrefixIffBeginsWith ==
    Matched("prefix") => (last.ret <=> BeginsWith(last.arg, m_matcher.m_str))

\* C3: a matcher holding substring(sub) matches the input t if and only if
\* sub occurs in t; the empty sub occurs in every input.
C3_SubstringIffOccurs ==
    Matched("substring") => (last.ret <=> OccursIn(m_matcher.m_str, last.arg))

\* C4: a matcher holding list(L) matches the input x if and only if x is equal
\* to an element of L, at any position; the empty list matches nothing.
C4_ListIffMember ==
    Matched("list") => (last.ret <=> last.arg \in Range(m_matcher.m_strings))

\* The list as it was before its last add_string.
BeforeAdd(m) == [m EXCEPT !.m_strings = SubSeq(@, 1, Len(@) - 1)]

\* C5: a match call that follows add_string(z) returns true for the input z,
\* and for every other input what the list returned before the add: the add
\* makes z match, makes no matching text stop matching and makes no text
\* other than z start matching.
C5_AddExtendsMembership ==
    [][(last.op \in {"add", "add_cstr"} /\ last'.op = "match")
         => (last'.ret <=> (\/ last'.arg = last.arg
                            \/ call_string(BeforeAdd(m_matcher), last'.arg)))]_vars

\* C6: StringMatcher(true) holds always_true and matches every input,
\* StringMatcher(false) holds always_false and matches none, as the matchers
\* built from the always_true and always_false payloads do; the default
\* constructed StringMatcher holds always_false and matches no input.
C6_BoolAndDefault ==
    /\ ctor.name = "bool" =>
        /\ m_matcher = (IF ctor.flag THEN always_true ELSE always_false)
        /\ last.op = "match" => last.ret = ctor.flag
    /\ ctor.name = "default" =>
        /\ m_matcher = always_false
        /\ last.op = "match" => last.ret = FALSE
    /\ Matched("always_true") => last.ret = TRUE
    /\ Matched("always_false") => last.ret = FALSE

C6_Witness ==
    /\ ctor.name = "bool"
    /\ ctor.flag
    /\ last.op = "match"
    /\ last.arg = <<97, 98>>
    /\ last.ret

\* "[v]" for each element of the vector, in order.
RECURSIVE Bracketed(_)
Bracketed(v) ==
    IF v = <<>> THEN <<>> ELSE <<91>> \o Head(v) \o <<93>> \o Bracketed(Tail(v))

\* C7: print writes "always_false", "always_true", "equal[<value>]",
\* "prefix[<value>]", "substring[<value>]", "regex" without the pattern, and
\* for a list "list[" then "[v]" for each element in insertion order then "]";
\* the list of "a" and "b" prints "list[[a][b]]", the empty list "list[]".
C7_PrintFormat ==
    last.op = "print" =>
        /\ m_matcher.kind = "always_false" =>
            last.out = <<97, 108, 119, 97, 121, 115, 95, 102, 97, 108, 115, 101>>
        /\ m_matcher.kind = "always_true" =>
            last.out = <<97, 108, 119, 97, 121, 115, 95, 116, 114, 117, 101>>
        /\ m_matcher.kind = "equal" =>
            last.out = <<101, 113, 117, 97, 108, 91>> \o m_matcher.m_str \o <<93>>
        /\ m_matcher.kind = "prefix" =>
            last.out = <<112, 114, 101, 102, 105, 120, 91>> \o m_matcher.m_str \o <<93>>
        /\ m_matcher.kind = "substring" =>
            last.out = <<115, 117, 98, 115, 116, 114, 105, 110, 103, 91>>
                           \o m_matcher.m_str \o <<93>>
        /\ m_matcher.kind = "regex" => last.out = <<114, 101, 103, 101, 120>>
        /\ m_matcher.kind = "list" =>
            /\ last.out = <<108, 105, 115, 116, 91>>
                              \o Bracketed(m_matcher.m_strings) \o <<93>>
            /\ m_matcher.m_strings = <<>> =>
                last.out = <<108, 105, 115, 116, 91, 93>>
            /\ m_matcher.m_strings = << <<97>>, <<98>> >> =>
                last.out = <<108, 105, 115, 116, 91, 91, 97, 93, 91, 98, 93, 93>>

C7_Witness ==
    /\ last.op = "print"
    /\ m_matcher.kind = "list"
    /\ m_matcher.m_strings = << <<97>>, <<98>> >>
    /\ last.out = <<108, 105, 115, 116, 91, 91, 97, 93, 91, 98, 93, 93>>

\* C8: a pattern that does not compile fails with an error when the regex is
\* constructed, and no StringMatcher comes into existence from it: a
\* StringMatcher that holds a regex payload holds a compiled pattern.
C8_NoMatcherFromInvalidPattern ==
    /\ m_matcher.kind = "regex" => regex_valid(m_matcher.m_regex.pattern)
    /\ (last.op = "compile" /\ ~regex_valid(last.arg)) =>
        /\ last.threw = "regex_error"
        /\ aregex = <<>>
        /\ m_matcher = unconstructed

C8_Witness ==
    /\ last.op = "compile"
    /\ last.arg = <<97, 40>>
    /\ last.threw = "regex_error"
    /\ m_matcher = unconstructed

\* C9: a match call never changes the matcher, and under every interleaving
\* of the calls of several threads on one shared instance, each call during
\* which no write was running returns what it returns when run alone.
C9_ConcurrentMatch ==
    /\ [](\A t \in Threads :
            (pc[t] = "done" /\ ~raced[t])
                => res[t] = call_cstr(m_matcher, m_str[t]))
    /\ [][(pc' # pc \/ it' # it) => m_matcher' = m_matcher]_vars

C9_Witness ==
    \E t1, t2 \in Threads :
        /\ t1 # t2
        /\ m_matcher.kind = "list"
        /\ Len(m_matcher.m_strings) = 2
        /\ wr = <<>>
        /\ ~raced[t1] /\ ~raced[t2]
        /\ pc[t1] = "done" /\ res[t1]
        /\ pc[t2] = "visit" /\ it[t2] = 2

\* Does not hold: a call that add_string ran into need not return what it
\* returns when run alone.
RacedCallReturnsAsAlone ==
    \A t \in Threads :
        (pc[t] = "done" /\ raced[t]) => res[t] = call_cstr(m_matcher, m_str[t])

\* C10: equal(v) and list of the one element v give the same answer on every
\* input t.
C10_EqualAsSingletonList ==
    Matched("equal") =>
        last.ret = call_string(list(<<m_matcher.m_str>>), last.arg)

====
